---- MODULE Spec2Model ----
(***************************************************************************)
(* Dixi: the speech playback pipeline (audio cache, remote synthesis,       *)
(* native speech-synthesis fallback) of the five builds kept in the         *)
(* repository:                                                              *)
(*   "service"  src/services/geminiService.ts  playTextToSpeech (128-210)   *)
(*   "part003"  src/unnamed/part_003           playTextToSpeech (164-248)   *)
(*   "part002"  src/unnamed/part_002           playTextToSpeech (69-157)    *)
(*   "prefetch" src/unnamed/part_002           playTTS          (724-754)   *)
(*   "native"   src/index.tsx                  playTTS          (55-120)    *)
(* A text is a sequence of character codes; a call is a record that keeps   *)
(* the position of the async function and counters of what it has done.     *)
(***************************************************************************)
EXTENDS Integers, Sequences, FiniteSets, TLC

\* ---------------------------------------------------------------- bounds
MaxCalls ==
  2

\* ------------------------------------------------------------- the texts
\* null / undefined argument (text?.trim() is then undefined)
Null ==
  <<-1>>

\* characters String.prototype.trim removes
WhiteSpace ==
  {9, 10, 11, 12, 13, 32, 160}

\* /[\u0590-\u05FF]/
HebrewBlock ==
  1424 .. 1535

\* the arguments the callers pass: null, " ", "a", " a ", "\u05E9"
Texts ==
  {Null, <<32>>, <<97>>, <<32, 97, 32>>, <<1513>>}

RECURSIVE TrimStart(_)
TrimStart(s) ==
  IF s # <<>> /\ Head(s) \in WhiteSpace THEN TrimStart(Tail(s)) ELSE s

RECURSIVE TrimEnd(_)
TrimEnd(s) ==
  IF s # <<>> /\ s[Len(s)] \in WhiteSpace
    THEN TrimEnd(SubSeq(s, 1, Len(s) - 1))
    ELSE s

\* String.prototype.trim
Trim(s) ==
  TrimEnd(TrimStart(s))

\* const cleanText = text?.trim();
CleanText(text) ==
  IF text = Null THEN Null ELSE Trim(text)

OnlyNullIsEmpty(clean) ==
  clean = Null

\* if (!cleanText) ...   (undefined and "" are falsy)
IsEmptyText(clean) ==
  clean = Null \/ clean = <<>>

\* utterance.lang
\* utterance.lang with the Hebrew test left out
AlwaysEnglish(clean) ==
  "en-US"

LangTag(clean) ==
  IF \E i \in 1 .. Len(clean) : clean[i] \in HebrewBlock
    THEN "he-IL"
    ELSE "en-US"

\* the audio the remote service synthesises for a request text, decoded
AudioOf(reqText) ==
  [says |-> reqText]

\* what the awaited generateContent call can produce
RemoteOutcomes ==
  {"audio", "text", "empty", "undecodable", "reject"}

\* what the call keeps of it: a decoded buffer or the way into the fallback
ResultClass(res) ==
  IF res = "audio" THEN "audio" ELSE "failed"

Variants ==
  {"service", "part003", "part002", "prefetch", "native"}

\* builds whose speak call is playTextToSpeech
PlayTextToSpeechVariants ==
  {"service", "part003", "part002"}

FailureOutcomes ==
  {"err_resume", "err_notext", "err_unsupported", "err_tts", "err_invoke",
   "rejected"}

VARIABLES
  variant,      \* which build runs
  apiKey,       \* process.env.API_KEY is set
  synthAvail,   \* window.speechSynthesis exists
  ctxState,     \* AudioContext.state
  audioCache,   \* audioCache: Record<string, AudioBuffer>
  calls,        \* the speak calls made so far, in order
  sources,      \* calls whose AudioBufferSourceNode is playing
  synthQueue,   \* speechSynthesis utterance queue, head is being spoken
  everDecoded,  \* keys for which a remote response was decoded (history)
  norm,         \* the two strings handed to checkAnswer and its verdict
  quiz,         \* TestMode state: question index, input value, results
  mode,         \* App state: the screen shown
  words,        \* App state: the active word list
  reviews,      \* App state: the review set
  store,        \* localStorage: the persisted word list and review set
  alerts,       \* alert() dialogs raised by the last operation
  hist,         \* the last operation with its input and the state before it
  pcm,          \* decodeAudioData: the bytes handed in and what came out
  player,       \* TestMode audio: isPlaying, the auto-play timer, calls in flight
  prefetch      \* pre-caching build: prefetching set, cache, open requests

vars ==
  <<variant, apiKey, synthAvail, ctxState, audioCache, calls, sources,
    synthQueue, everDecoded, norm, quiz, mode, words, reviews, store,
    alerts, hist, pcm, player, prefetch>>

\* the state of the speech pipeline
ttsVars ==
  <<apiKey, synthAvail, ctxState, audioCache, calls, sources, synthQueue,
    everDecoded>>

\* the state of the screens, the word lists and the answer checker
appVars ==
  <<norm, quiz, mode, words, reviews, store, alerts, hist>>

\* the state of the decoder, of the quiz's audio and of the pre-caching
svcVars ==
  <<pcm, player, prefetch>>

env ==
  <<variant, apiKey, synthAvail>>

Ids ==
  1 .. Len(calls)

\* the record of a call at the moment it is made
NewCall(text) ==
  [text |-> text, clean |-> Null, pc |-> "entry", outcome |-> "pending",
   reqs |-> 0, fb |-> 0, starts |-> 0, utter |-> 0, wrote |-> 0,
   sawCache |-> FALSE, priorDecoded |-> FALSE, resumeFailed |-> FALSE,
   res |-> "none", nativeEv |-> "none", psc |-> <<>>, superseded |-> FALSE]

\* ----------------------------------------------- the parts left at rest
\* a parsed JSON value, as far as the App looks at it: Array.isArray and items
JsonArray(items) ==
  [kind |-> "array", items |-> items]

NoNorm ==
  [s1 |-> Null, s2 |-> Null, edits |-> 0, only |-> TRUE, verdict |-> "none",
   once |-> Null, twice |-> Null]

\* TestMode as mounted; at: the index each result was submitted at (history),
\* testResults: what onComplete handed to the App
NoQuiz ==
  [idx |-> 0, val |-> <<>>, res |-> <<>>, at |-> <<>>, testResults |-> <<>>]

NoHist ==
  [op |-> "none"]

\* no string is checked, no quiz runs, the App shows the menu with no list
AppIdle ==
  /\ norm = NoNorm
  /\ quiz = NoQuiz
  /\ mode = "MENU"
  /\ words = JsonArray(<<>>)
  /\ reviews = <<>>
  /\ store = [words |-> [kind |-> "absent", items |-> <<>>],
              reviews |-> <<>>]
  /\ alerts = 0
  /\ hist = NoHist

NoPcm ==
  [op |-> "none"]

NoPlayer ==
  [op |-> "none"]

NoPrefetch ==
  [op |-> "none"]

\* nothing is decoded, no quiz audio, nothing pre-cached
SvcIdle ==
  /\ pcm = NoPcm
  /\ player = NoPlayer
  /\ prefetch = NoPrefetch

\* nothing is spoken
TtsIdle ==
  /\ apiKey = TRUE
  /\ synthAvail = TRUE
  /\ ctxState = "running"
  /\ audioCache = <<>>
  /\ calls = <<>>
  /\ sources = {}
  /\ synthQueue = <<>>
  /\ everDecoded = {}

Init ==
  /\ AppIdle
  /\ SvcIdle
  /\ variant \in Variants
  /\ apiKey \in (IF variant \in {"service", "native"} THEN {TRUE} ELSE BOOLEAN)
  /\ synthAvail \in BOOLEAN
  /\ ctxState \in (IF variant = "native" THEN {"running"}
                                            ELSE {"suspended", "running"})
  /\ audioCache = <<>>
  /\ calls = <<>>
  /\ sources = {}
  /\ synthQueue = <<>>
  /\ everDecoded = {}

\* ------------------------------------------------------- shared pieces
\* calls whose utterance is in the speechSynthesis queue
QueuedCalls ==
  {synthQueue[i].call : i \in 1 .. Len(synthQueue)}

\* new SpeechSynthesisUtterance(cleanText); u.lang = ...
Utterance(c, clean) ==
  [call |-> c, text |-> clean, lang |-> LangTag(clean)]

\* a call made while an earlier call still awaits generateContent
Supersede(cs) ==
  [d \in DOMAIN cs |->
     IF cs[d].pc = "remote" THEN [cs[d] EXCEPT !.superseded = TRUE]
                            ELSE cs[d]]

NeverHit(cache, clean) ==
  FALSE

\* let buffer = audioCache[cleanText]; if (!buffer) ...
CacheHit(cache, clean) ==
  clean \in DOMAIN cache

StoreNothing(cache, clean, buffer) ==
  cache

\* audioCache[cleanText] = buffer;
CacheStore(cache, clean, buffer) ==
  (clean :> buffer) @@ cache

\* trim(text) as the specification writes it, for the history fields and
\* the properties
Trimmed(text) ==
  IF text = Null THEN Null ELSE Trim(text)

\* const cleanText = text?.trim(); with what the cache and the history hold
\* under trim(text) at this moment, kept for the record
AtLookup(cs, c) ==
  [cs EXCEPT ![c].clean = CleanText(cs[c].text),
             ![c].sawCache = Trimmed(cs[c].text) \in DOMAIN audioCache,
             ![c].priorDecoded = Trimmed(cs[c].text) \in everDecoded]

\* the async function returns / its promise settles
Finish(cs, c, out) ==
  /\ calls' = [cs EXCEPT ![c].pc = "done", ![c].outcome = out]
  /\ UNCHANGED <<sources, synthQueue>>

\* ctx.createBufferSource(); source.buffer = buffer; source.start();
StartSource(cs, c) ==
  /\ calls' = [cs EXCEPT ![c].pc = "playing", ![c].starts = @ + 1]
  /\ sources' = sources \cup {c}
  /\ UNCHANGED synthQueue

\* await ai.models.generateContent({...})
SendRequest(cs, c) ==
  /\ calls' = [cs EXCEPT ![c].pc = "remote", ![c].reqs = @ + 1]
  /\ UNCHANGED <<sources, synthQueue>>

SpeakTwice(cs, c, queue) ==
  /\ calls' = [cs EXCEPT ![c].pc = "queued", ![c].utter = @ + 2]
  /\ synthQueue' = Append(Append(queue, Utterance(c, cs[c].clean)),
                          Utterance(c, cs[c].clean))
  /\ UNCHANGED sources

\* window.speechSynthesis.speak(u)
Speak(cs, c, queue) ==
  /\ calls' = [cs EXCEPT ![c].pc = "queued", ![c].utter = @ + 1]
  /\ synthQueue' = Append(queue, Utterance(c, cs[c].clean))
  /\ UNCHANGED sources

\* ------------------------------------------------ completion handlers
\* source.onended = () => resolve(...)
OnEnded(r) ==
  CASE variant = "part002" ->
         [r EXCEPT !.pc = "done", !.outcome = "success"]
    [] variant = "prefetch" ->
         [r EXCEPT !.pc = "done", !.outcome = "void",
                   !.psc = Append(@, FALSE)]
    [] OTHER ->
         [r EXCEPT !.pc = "done", !.outcome = "void"]

\* utterance.onend
OnUtteranceEnd(r) ==
  CASE variant = "part002" ->
         [r EXCEPT !.pc = "done", !.outcome = "success", !.nativeEv = "end"]
    [] variant \in {"prefetch", "native"} ->
         [r EXCEPT !.pc = "done", !.outcome = "void", !.nativeEv = "end",
                   !.psc = Append(@, FALSE)]
    [] OTHER ->
         [r EXCEPT !.pc = "done", !.outcome = "void", !.nativeEv = "end"]

\* utterance.onerror (playTTS of part_002 sets no onerror handler)
OnUtteranceError(r) ==
  CASE variant = "part002" ->
         [r EXCEPT !.pc = "done", !.outcome = "err_tts",
                   !.nativeEv = "error"]
    [] variant = "native" ->
         [r EXCEPT !.pc = "done", !.outcome = "void", !.nativeEv = "error",
                   !.psc = Append(@, FALSE)]
    [] variant = "prefetch" ->
         [r EXCEPT !.nativeEv = "error"]
    [] OTHER ->
         [r EXCEPT !.pc = "done", !.outcome = "void", !.nativeEv = "error"]

\* window.speechSynthesis.cancel(): every queued utterance is removed and
\* its onerror handler runs (error "interrupted" / "canceled")
Cancel(cs) ==
  [d \in DOMAIN cs |->
     IF d \in QueuedCalls
       THEN [OnUtteranceError(cs[d]) EXCEPT !.nativeEv = "cancelled"]
       ELSE cs[d]]

\* ------------------------------------------------- the native fallbacks
\* service / part003: fallbackToBrowserTTS. Without window.speechSynthesis
\* the executor throws and the returned promise rejects.
fallbackToBrowserTTS(cs, c) ==
  IF ~synthAvail
    THEN Finish([cs EXCEPT ![c].fb = @ + 1], c, "rejected")
    ELSE Speak([Cancel(cs) EXCEPT ![c].fb = @ + 1], c, <<>>)

\* part002: fallback. cancel() now, speak() from a 10 ms timer.
fallback(cs, c) ==
  IF ~synthAvail
    THEN Finish([cs EXCEPT ![c].fb = @ + 1], c, "err_unsupported")
    ELSE /\ calls' = [Cancel(cs) EXCEPT ![c].fb = @ + 1, ![c].pc = "timer"]
         /\ synthQueue' = <<>>
         /\ UNCHANGED sources

\* prefetch: the catch block of playTTS. No cancel(), no onerror.
playTTS_catch(cs, c) ==
  IF ~synthAvail
    THEN Finish([cs EXCEPT ![c].fb = @ + 1], c, "rejected")
    ELSE Speak([cs EXCEPT ![c].fb = @ + 1], c, synthQueue)

\* ------------------------------ the code after the device is looked at
\* service: trim, empty check, cache lookup, request
lookup_service(cs0, c) ==
  LET cs == AtLookup(cs0, c)
      clean == cs[c].clean
  IN IF IsEmptyText(clean) THEN Finish(cs, c, "void")
     ELSE IF CacheHit(audioCache, clean) THEN StartSource(cs, c)
     ELSE SendRequest(cs, c)

\* part003: as service, but getAiClient() may yield no client
lookup_part003(cs0, c) ==
  LET cs == AtLookup(cs0, c)
      clean == cs[c].clean
  IN IF IsEmptyText(clean) THEN Finish(cs, c, "void")
     ELSE IF CacheHit(audioCache, clean) THEN StartSource(cs, c)
     ELSE IF ~apiKey THEN fallbackToBrowserTTS(cs, c)
     ELSE SendRequest(cs, c)

\* the request sent with neither the empty check nor the cache lookup
RequestBeforeLookup(cs0, c) ==
  SendRequest(cs0, c)

\* part002: "No text to speak.", cache, API key, request
lookup_part002(cs0, c) ==
  LET cs == AtLookup(cs0, c)
      clean == cs[c].clean
  IN IF IsEmptyText(clean) THEN Finish(cs, c, "err_notext")
     ELSE IF CacheHit(audioCache, clean) THEN StartSource(cs, c)
     ELSE IF ~apiKey THEN fallback(cs, c)
     ELSE SendRequest(cs, c)

\* prefetch: playTTS after the resume; fetchGeminiTTS returns null without
\* an API key, which throws "No buffer"
lookup_prefetch(cs0, c) ==
  LET cs1 == AtLookup(cs0, c)
      clean == cs1[c].clean
      cs == [cs1 EXCEPT ![c].psc = Append(@, TRUE)]
  IN IF IsEmptyText(clean) THEN Finish(cs1, c, "void")
     ELSE IF CacheHit(audioCache, clean) THEN StartSource(cs, c)
     ELSE IF ~apiKey THEN playTTS_catch(cs, c)
     ELSE SendRequest(cs, c)

\* native: playTTS of index.tsx, all of it up to the 50 ms timer
playTTS_native(cs0, c) ==
  LET cs == AtLookup(cs0, c)
      clean == cs[c].clean
  IN IF IsEmptyText(clean) \/ ~synthAvail THEN Finish(cs, c, "void")
     ELSE /\ calls' = [Cancel(cs) EXCEPT ![c].pc = "timer"]
          /\ synthQueue' = <<>>
          /\ UNCHANGED sources

\* getAudioContext of the service build: resume() is fired, not awaited;
\* ok tells whether the device comes up
getAudioContext(state, ok) ==
  IF state = "suspended" /\ ok THEN "running" ELSE state

\* ------------------------------------------------------------ actions
\* a caller invokes the speak function of the build
Call(text) ==
  /\ Len(calls) < MaxCalls
  /\ LET c == Len(calls) + 1
         cs == Append(Supersede(calls), NewCall(text))
     IN CASE variant = "service" ->
               \E ok \in BOOLEAN :
                 /\ ctxState' = getAudioContext(ctxState, ok)
                 /\ lookup_service(
                      [cs EXCEPT ![c].resumeFailed =
                                   (ctxState = "suspended" /\ ~ok)], c)
          [] variant = "native" ->
               /\ playTTS_native(cs, c)
               /\ UNCHANGED ctxState
          [] OTHER ->
               /\ UNCHANGED ctxState
               /\ IF ctxState = "suspended"
                    THEN /\ calls' = [cs EXCEPT ![c].pc = "resume"]
                         /\ UNCHANGED <<sources, synthQueue>>
                    ELSE CASE variant = "part003" -> lookup_part003(cs, c)
                           [] variant = "part002" -> lookup_part002(cs, c)
                           [] variant = "prefetch" -> lookup_prefetch(cs, c)
  /\ UNCHANGED <<env, audioCache, everDecoded>>
  /\ UNCHANGED <<appVars, svcVars>>

ProceedOnResumeFailure(cs, c) ==
  lookup_part002(cs, c)

\* part002: catch (e) { return { success: false, error: "Cannot resume..." } }
resumeRejected_part002(cs, c) ==
  Finish(cs, c, "err_resume")

\* await ctx.resume() settles
ResumeSettled(c, ok) ==
  /\ c \in Ids
  /\ calls[c].pc = "resume"
  /\ ctxState' = IF ok THEN "running" ELSE ctxState
  /\ LET cs == [calls EXCEPT ![c].resumeFailed = ~ok]
     IN CASE variant = "part003" -> lookup_part003(cs, c)
          [] variant = "part002" ->
               IF ok THEN lookup_part002(cs, c)
                     ELSE resumeRejected_part002(cs, c)
          [] variant = "prefetch" ->
               IF ok THEN lookup_prefetch(cs, c)
                     ELSE Finish(cs, c, "rejected")
  /\ UNCHANGED <<env, audioCache, everDecoded>>
  /\ UNCHANGED <<appVars, svcVars>>

\* ------------------------------------- the code after the awaited request
onResponse_rethrow(cs, c, res) ==
  IF res = "audio"
    THEN /\ audioCache' =
              CacheStore(audioCache, cs[c].clean, AudioOf(cs[c].clean))
         /\ StartSource([cs EXCEPT ![c].wrote = @ + 1], c)
    ELSE /\ audioCache' = audioCache
         /\ Finish(cs, c, "err_remote")

\* service / part003: part?.text, !base64Audio, decode, cache, play; the
\* catch block turns a rejection or a decode error into the fallback
onResponse_service(cs, c, res) ==
  IF res = "audio"
    THEN /\ audioCache' =
              CacheStore(audioCache, cs[c].clean, AudioOf(cs[c].clean))
         /\ StartSource([cs EXCEPT ![c].wrote = @ + 1], c)
    ELSE /\ audioCache' = audioCache
         /\ fallbackToBrowserTTS(cs, c)

\* part002: if (!base64) throw ...; decode; cache; play; catch -> fallback()
onResponse_part002(cs, c, res) ==
  IF res = "audio"
    THEN /\ audioCache' =
              CacheStore(audioCache, cs[c].clean, AudioOf(cs[c].clean))
         /\ StartSource([cs EXCEPT ![c].wrote = @ + 1], c)
    ELSE /\ audioCache' = audioCache
         /\ fallback(cs, c)

\* prefetch: fetchGeminiTTS yields the buffer or null; null throws
\* "No buffer" into the catch block
onResponse_prefetch(cs, c, res) ==
  IF res = "audio"
    THEN /\ audioCache' =
              CacheStore(audioCache, cs[c].clean, AudioOf(cs[c].clean))
         /\ StartSource([cs EXCEPT ![c].wrote = @ + 1], c)
    ELSE /\ audioCache' = audioCache
         /\ playTTS_catch(cs, c)

\* the remote service answers the request of call c
Response(c, res) ==
  /\ c \in Ids
  /\ calls[c].pc = "remote"
  /\ LET cs == [calls EXCEPT ![c].res = ResultClass(res)]
     IN CASE variant \in {"service", "part003"} ->
               onResponse_service(cs, c, res)
          [] variant = "part002" -> onResponse_part002(cs, c, res)
          [] variant = "prefetch" -> onResponse_prefetch(cs, c, res)
  /\ everDecoded' = IF res = "audio"
                      THEN everDecoded \cup {Trimmed(calls[c].text)}
                      ELSE everDecoded
  /\ UNCHANGED <<env, ctxState>>
  /\ UNCHANGED <<appVars, svcVars>>

\* the setTimeout callback that calls speechSynthesis.speak (part002: 10 ms,
\* inside try/catch; native: 50 ms)
Timeout(c) ==
  /\ c \in Ids
  /\ calls[c].pc = "timer"
  /\ IF variant = "part002"
       THEN \E throws \in BOOLEAN :
              IF throws THEN Finish(calls, c, "err_invoke")
                        ELSE Speak(calls, c, synthQueue)
       ELSE Speak(calls, c, synthQueue)
  /\ UNCHANGED <<env, ctxState, audioCache, everDecoded>>
  /\ UNCHANGED <<appVars, svcVars>>

\* the engine begins the utterance at the head of the queue; only playTTS
\* of index.tsx listens (utterance.onstart)
UtteranceStart(c) ==
  /\ variant = "native"
  /\ synthQueue # <<>>
  /\ Head(synthQueue).call = c
  /\ calls[c].pc = "queued"
  /\ calls' = [calls EXCEPT ![c].pc = "speaking", ![c].psc = Append(@, TRUE)]
  /\ UNCHANGED <<env, ctxState, audioCache, everDecoded, sources, synthQueue>>
  /\ UNCHANGED <<appVars, svcVars>>

\* the engine finishes the utterance (onend)
UtteranceEnd(c) ==
  /\ synthQueue # <<>>
  /\ Head(synthQueue).call = c
  /\ calls[c].pc = IF variant = "native" THEN "speaking" ELSE "queued"
  /\ calls' = [calls EXCEPT ![c] = OnUtteranceEnd(@)]
  /\ synthQueue' = Tail(synthQueue)
  /\ UNCHANGED <<env, ctxState, audioCache, everDecoded, sources>>
  /\ UNCHANGED <<appVars, svcVars>>

\* the engine fails the utterance (onerror)
UtteranceError(c) ==
  /\ synthQueue # <<>>
  /\ Head(synthQueue).call = c
  /\ calls[c].pc \in {"queued", "speaking"}
  /\ calls' = [calls EXCEPT ![c] = OnUtteranceError(@)]
  /\ synthQueue' = Tail(synthQueue)
  /\ UNCHANGED <<env, ctxState, audioCache, everDecoded, sources>>
  /\ UNCHANGED <<appVars, svcVars>>

\* the buffer source of call c plays to its end (onended)
SourceEnded(c) ==
  /\ c \in sources
  /\ calls' = [calls EXCEPT ![c] = OnEnded(@)]
  /\ sources' = sources \ {c}
  /\ UNCHANGED <<env, ctxState, audioCache, everDecoded, synthQueue>>
  /\ UNCHANGED <<appVars, svcVars>>

Next ==
  \/ \E text \in Texts : Call(text)
  \/ \E c \in Ids, ok \in BOOLEAN : ResumeSettled(c, ok)
  \/ \E c \in Ids, res \in RemoteOutcomes : Response(c, res)
  \/ \E c \in Ids : Timeout(c)
  \/ \E c \in Ids : UtteranceStart(c)
  \/ \E c \in Ids : UtteranceEnd(c)
  \/ \E c \in Ids : UtteranceError(c)
  \/ \E c \in Ids : SourceEnded(c)

Spec ==
  Init /\ [][Next]_vars

TypeOK ==
  /\ variant \in Variants
  /\ ctxState \in {"suspended", "running"}
  /\ Len(calls) <= MaxCalls
  /\ sources \subseteq Ids
  /\ QueuedCalls \subseteq Ids

\* ============================================================ properties
NonEmpty(text) ==
  Trimmed(text) # Null /\ Trimmed(text) # <<>>

Playbacks(r) ==
  r.starts + r.utter

\* C1: if the audio cache holds a buffer under trim(text) when the call looks
\* it up, the call issues no remote request and no fallback; it starts the
\* cached buffer once and settles (successfully) exactly when that playback
\* has ended.
C1_CacheHitNoRemote ==
  \A c \in Ids :
    calls[c].sawCache =>
      /\ calls[c].reqs = 0
      /\ calls[c].fb = 0
      /\ calls[c].utter = 0
      /\ calls[c].starts = 1
      /\ (calls[c].pc = "playing") <=> (c \in sources)
      /\ (calls[c].pc = "done") <=> (c \notin sources)
      /\ calls[c].pc = "done" => calls[c].outcome \in {"void", "success"}

C1_Witness ==
  \E c \in Ids :
    /\ calls[c].sawCache
    /\ calls[c].pc = "done"
    /\ calls[c].starts = 1

\* C2: when the remote request of a call (non-empty trimmed text, cache miss)
\* rejects or answers without decodable inline audio, the call invokes the
\* native fallback once, with the trimmed text as the utterance, writes
\* nothing to the cache and starts no buffer; its outcome is the fallback's,
\* never the remote error.
C2_RemoteFailureFallsBack ==
  \A c \in Ids :
    calls[c].res = "failed" =>
      /\ NonEmpty(calls[c].text)
      /\ ~calls[c].sawCache
      /\ calls[c].reqs = 1
      /\ calls[c].fb = 1
      /\ calls[c].wrote = 0
      /\ calls[c].starts = 0
      /\ calls[c].outcome # "err_remote"
      /\ synthAvail =>
           \/ calls[c].pc = "timer"
           \/ calls[c].utter = 1
           \/ calls[c].outcome = "err_invoke"
      /\ \A i \in 1 .. Len(synthQueue) :
           synthQueue[i].call = c =>
             synthQueue[i].text = Trimmed(calls[c].text)

C2_Witness ==
  \E c \in Ids :
    /\ calls[c].res = "failed"
    /\ calls[c].nativeEv = "end"
    /\ calls[c].pc = "done"

\* outcomes of a playTextToSpeech call that ends before anything is played
FailedBeforePlayback ==
  {"err_resume", "err_unsupported", "err_invoke", "rejected"}

\* C3 (as claimed): every finished playTextToSpeech call with non-empty
\* trimmed text has started exactly one playback.
C3_ExactlyOnePlayback ==
  variant \in PlayTextToSpeechVariants =>
    \A c \in Ids :
      (calls[c].pc = "done" /\ NonEmpty(calls[c].text)) =>
        Playbacks(calls[c]) = 1

\* C3 (amended): a playTextToSpeech call with non-empty trimmed text starts
\* at most one playback, never a buffer source and a native utterance both;
\* a finished call has started exactly one unless it ended in a failure
\* before playback (device cannot resume, native synthesis missing or
\* speak() throwing), and then it has started none.
C3_AtMostOnePlayback ==
  variant \in PlayTextToSpeechVariants =>
    \A c \in Ids :
      /\ Playbacks(calls[c]) <= 1
      /\ (calls[c].pc = "done" /\ NonEmpty(calls[c].text)) =>
           (Playbacks(calls[c]) = 1
              <=> calls[c].outcome \notin FailedBeforePlayback)

C3_Witness ==
  /\ variant \in PlayTextToSpeechVariants
  /\ \E c, d \in Ids :
       /\ calls[c].pc = "done" /\ NonEmpty(calls[c].text)
       /\ Playbacks(calls[c]) = 1
       /\ calls[d].pc = "done" /\ NonEmpty(calls[d].text)
       /\ Playbacks(calls[d]) = 0

\* C4 (as claimed): across the speak calls of geminiService.ts and of
\* index.tsx, at most one playback (playing buffer source, or utterance
\* spoken or queued) exists at any time.
C4_AtMostOneActive ==
  variant \in {"service", "native"} =>
    Cardinality(sources) + Len(synthQueue) <= 1

\* C5 (as claimed): a call whose remote request was still outstanding when a
\* later call was made starts no playback when its result arrives.
C5_SupersededResultIgnored ==
  \A c \in Ids :
    calls[c].superseded => calls[c].starts = 0

\* C6 (as claimed): a finished playTextToSpeech call whose trimmed text is
\* empty has the outcome "no text to speak" and has done nothing else; the
\* cache has no empty key.
C6_EmptyTextFailsNoText ==
  variant \in PlayTextToSpeechVariants =>
    /\ Null \notin DOMAIN audioCache
    /\ <<>> \notin DOMAIN audioCache
    /\ \A c \in Ids :
         (calls[c].pc = "done" /\ ~NonEmpty(calls[c].text)) =>
           /\ calls[c].outcome = "err_notext"
           /\ calls[c].reqs = 0 /\ calls[c].fb = 0
           /\ Playbacks(calls[c]) = 0 /\ calls[c].wrote = 0

\* C6 (amended): a playTextToSpeech call whose trimmed text is empty issues
\* no remote request, no fallback, no playback and no cache write, and the
\* cache never has an empty key; it does nothing but wait for the device
\* resume (part_002, part_003) and return: "No text to speak." in part_002
\* unless the resume failed ("Cannot resume audio context"), a plain void
\* return in the service and part_003 builds.
C6_EmptyTextDoesNothing ==
  variant \in PlayTextToSpeechVariants =>
    /\ Null \notin DOMAIN audioCache
    /\ <<>> \notin DOMAIN audioCache
    /\ \A c \in Ids :
         ~NonEmpty(calls[c].text) =>
           /\ calls[c].reqs = 0 /\ calls[c].fb = 0
           /\ Playbacks(calls[c]) = 0 /\ calls[c].wrote = 0
           /\ calls[c].pc \in {"resume", "done"}
           /\ calls[c].pc = "done" =>
                calls[c].outcome =
                  IF variant # "part002" THEN "void"
                  ELSE IF calls[c].resumeFailed THEN "err_resume"
                  ELSE "err_notext"

C6_Witness ==
  /\ variant = "part002"
  /\ \E c, d \in Ids :
       /\ calls[c].text = <<32>> /\ calls[c].outcome = "err_notext"
       /\ calls[d].text = Null /\ calls[d].outcome = "err_resume"

\* something the environment has still to report to the call
Outstanding(c) ==
  \/ calls[c].pc \in {"resume", "remote", "timer"}
  \/ c \in sources
  \/ c \in QueuedCalls

\* C7 (as claimed): where the playback engines exist, a speak call makes at
\* most one remote request and one fallback attempt, and it is terminal,
\* with every onPlayStateChange(true) followed by onPlayStateChange(false),
\* once nothing it started is left for the remote service or the playback
\* engines to report.
C7_TerminalOnceReported ==
  synthAvail => \A c \in Ids :
    /\ calls[c].reqs <= 1
    /\ calls[c].fb <= 1
    /\ ~Outstanding(c) =>
         /\ calls[c].pc = "done"
         /\ calls[c].psc # <<>> => calls[c].psc[Len(calls[c].psc)] = FALSE

\* C8 (as claimed): when the fallback of a playTextToSpeech call ran, a
\* reported completion gives a success outcome, and a reported error or a
\* missing synthesizer gives a failure outcome.
C8_FallbackOutcome ==
  variant \in PlayTextToSpeechVariants =>
    \A c \in Ids :
      (calls[c].pc = "done" /\ calls[c].fb = 1) =>
        /\ calls[c].nativeEv = "end" => calls[c].outcome \in {"success", "void"}
        /\ calls[c].nativeEv = "error" => calls[c].outcome \in FailureOutcomes
        /\ ~synthAvail => calls[c].outcome \in FailureOutcomes

\* C9: once a call's remote request returned decodable audio for trim(text),
\* the cache holds that decoded audio under exactly trim(text) in every later
\* state, and every call that looks the text up later issues no request.
C9_CacheKeepsDecoded ==
  /\ \A k \in everDecoded :
       k \in DOMAIN audioCache /\ audioCache[k] = AudioOf(k)
  /\ \A c \in Ids :
       /\ calls[c].res = "audio" => Trimmed(calls[c].text) \in everDecoded
       /\ calls[c].priorDecoded => calls[c].reqs = 0 /\ calls[c].starts = 1

C9_Witness ==
  \E c, d \in Ids :
    /\ c < d
    /\ calls[c].res = "audio"
    /\ calls[c].text # calls[d].text
    /\ calls[d].priorDecoded
    /\ calls[d].pc = "done"

\* C10 (as claimed): a playTextToSpeech call with a text to speak that found
\* the device suspended and could not resume it returns "audio device
\* unavailable", without a remote request and without a playback.
C10_DeviceUnavailableFails ==
  variant \in PlayTextToSpeechVariants =>
    \A c \in Ids :
      (calls[c].resumeFailed /\ NonEmpty(calls[c].text)) =>
        /\ calls[c].reqs = 0
        /\ Playbacks(calls[c]) = 0
        /\ calls[c].pc = "done" => calls[c].outcome = "err_resume"

\* C10 (amended): in the part_002 build, a playTextToSpeech call whose
\* awaited resume() of the suspended device rejects returns the failure
\* "Cannot resume audio context", and issues no remote request, no fallback
\* and no playback; the service and part_003 builds go on with the call.
C10_Part002DeviceUnavailableFails ==
  variant = "part002" =>
    \A c \in Ids :
      calls[c].resumeFailed =>
        /\ calls[c].pc = "done"
        /\ calls[c].outcome = "err_resume"
        /\ calls[c].reqs = 0 /\ calls[c].fb = 0
        /\ Playbacks(calls[c]) = 0

C10_Witness ==
  /\ variant = "part002"
  /\ \E c \in Ids :
       /\ NonEmpty(calls[c].text)
       /\ calls[c].resumeFailed
       /\ calls[c].outcome = "err_resume"

\* ---------------------------------------------------------------------------
\* C11: every utterance handed to speechSynthesis carries 'he-IL' exactly when
\* the trimmed text of its call has a character in U+0590..U+05FF, and 'en-US'
\* otherwise.
HasHebrew(text) ==
  \E i \in 1 .. Len(text) : text[i] >= 1424 /\ text[i] <= 1535

C11_LanguageTag ==
  \A i \in 1 .. Len(synthQueue) :
    LET u == synthQueue[i]
        t == Trimmed(calls[u.call].text)
    IN  /\ u.lang \in {"he-IL", "en-US"}
        /\ u.lang = "he-IL" <=> HasHebrew(t)

C11_Witness ==
  /\ \E i \in 1 .. Len(synthQueue) :
       synthQueue[i].lang = "he-IL" /\ calls[synthQueue[i].call].text = <<1513>>
  /\ \E i \in 1 .. Len(synthQueue) :
       synthQueue[i].lang = "en-US" /\ calls[synthQueue[i].call].text = <<32, 97, 32>>

\* ---------------------------------------------------------------------------
\* C24: within one playTextToSpeech call the empty-text check comes before any
\* attempt to resume the device, the resume before the cache lookup, the
\* lookup before any remote request, and the native fallback only after a
\* remote or decode failure (without an API key no request can be made and
\* the build goes to the fallback at once).
ResumeBeforeLookup(r) ==
  r.pc = "resume" =>
    /\ r.outcome = "pending"
    /\ ~r.sawCache
    /\ r.reqs = 0 /\ r.fb = 0 /\ r.starts = 0

LookupBeforeRequest(r) ==
  r.reqs > 0 =>
    /\ NonEmpty(r.text)
    /\ r.clean = Trimmed(r.text)
    /\ ~r.sawCache

FallbackAfterFailure(r) ==
  r.fb > 0 =>
    /\ r.starts = 0
    /\ \/ r.reqs = 1 /\ r.res = "failed"
       \/ r.reqs = 0 /\ ~apiKey

MaxEdits ==
  2

\* /[.,\/#!$%\^&\*;:{}=\-_`~()?"']/g
Punctuation ==
  {46, 44, 47, 35, 33, 36, 37, 94, 38, 42, 59, 58, 123, 125, 61, 45, 95, 96,
   126, 40, 41, 63, 34, 39}

\* /[\u0591-\u05C7]/g
NikudBlock ==
  1425 .. 1479

\* str.replace(/[...]/g, "")
RemoveAll(str, set) ==
  SelectSeq(str, LAMBDA ch : ch \notin set)

\* str.replace(/\s{2,}/g, " "): a run of two or more becomes one space, a
\* single white-space character stays what it is
RECURSIVE CollapseRuns(_)
CollapseRuns(str) ==
  IF str = <<>> THEN <<>>
  ELSE IF Len(str) >= 2 /\ str[1] \in WhiteSpace /\ str[2] \in WhiteSpace
    THEN <<32>> \o CollapseRuns(TrimStart(str))
    ELSE <<Head(str)>> \o CollapseRuns(Tail(str))

\* String.prototype.toLowerCase on the letters the strings below use
ToLowerCase(str) ==
  [i \in 1 .. Len(str) |->
     IF str[i] \in 65 .. 90 THEN str[i] + 32 ELSE str[i]]

\* the white space collapsed before the punctuation is removed
normalizeCollapseFirst(str) ==
  IF str = Null \/ str = <<>>
    THEN <<>>
    ELSE ToLowerCase(Trim(RemoveAll(CollapseRuns(str), Punctuation)))

\* the comparison made case-sensitive
normalizeKeepCase(str) ==
  IF str = Null \/ str = <<>>
    THEN <<>>
    ELSE Trim(CollapseRuns(RemoveAll(str, Punctuation)))

normalizeString_utils(str) ==
  IF str = Null \/ str = <<>>
    THEN <<>>
    ELSE ToLowerCase(Trim(CollapseRuns(RemoveAll(str, Punctuation))))

normalizeString_index(str) ==
  IF str = Null \/ str = <<>>
    THEN <<>>
    ELSE normalizeString_utils(RemoveAll(str, NikudBlock))

normalizeString(str) ==
  IF variant = "native"
    THEN normalizeString_index(str)
    ELSE normalizeString_utils(str)

checkAnswer(correct, actual) ==
  normalizeString(correct) = normalizeString(actual)

\* the builds with the two texts of normalizeString
NormVariants ==
  {"service", "native"}

\* "a b", "a<TAB>b", "A. b", " a", and shin-sheva-lamed
NormStrings ==
  {<<97, 32, 98>>, <<97, 9, 98>>, <<65, 46, 32, 98>>, <<32, 97>>,
   <<1513, 1456, 1500>>}

\* the punctuation typed into the second string: "." and "-"
TypedPunctuation ==
  {46, 45}

\* the other characters typed: "b", newline, a vowel point
TypedChars ==
  {98, 10, 1456}

InsertAt(str, i, ch) ==
  SubSeq(str, 1, i) \o <<ch>> \o SubSeq(str, i + 1, Len(str))

DeleteAt(str, i) ==
  SubSeq(str, 1, i - 1) \o SubSeq(str, i + 1, Len(str))

\* position i lies in a white-space run with other text on both sides
Internal(str, i) ==
  /\ str[i] \in WhiteSpace
  /\ \E j \in 1 .. i - 1 : str[j] \notin WhiteSpace
  /\ \E k \in i + 1 .. Len(str) : str[k] \notin WhiteSpace

SwapCase(ch) ==
  IF ch \in 65 .. 90 THEN ch + 32
  ELSE IF ch \in 97 .. 122 THEN ch - 32
  ELSE ch

InitNorm ==
  /\ TtsIdle
  /\ SvcIdle
  /\ variant \in NormVariants
  /\ \E s \in NormStrings : norm = [NoNorm EXCEPT !.s1 = s, !.s2 = s]
  /\ quiz = NoQuiz
  /\ mode = "MENU"
  /\ words = JsonArray(<<>>)
  /\ reviews = <<>>
  /\ store = [words |-> [kind |-> "absent", items |-> <<>>],
              reviews |-> <<>>]
  /\ alerts = 0
  /\ hist = NoHist

Editable ==
  norm.edits < MaxEdits /\ norm.verdict = "none" /\ norm.once = Null

Edited(str, keepsOnly) ==
  /\ norm' = [norm EXCEPT !.s2 = str, !.edits = @ + 1,
                          !.only = @ /\ keepsOnly]
  /\ UNCHANGED <<variant, ttsVars, svcVars, quiz, mode, words, reviews, store,
                 alerts, hist>>

\* the second string gets one more punctuation character
InsertPunctuation(i, ch) ==
  /\ Editable
  /\ i \in 0 .. Len(norm.s2)
  /\ Edited(InsertAt(norm.s2, i, ch), TRUE)

\* the second string loses a punctuation character
DeletePunctuation(i) ==
  /\ Editable
  /\ i \in 1 .. Len(norm.s2)
  /\ norm.s2[i] \in Punctuation
  /\ Edited(DeleteAt(norm.s2, i), TRUE)

\* a letter of the second string changes case
ChangeCase(i) ==
  /\ Editable
  /\ i \in 1 .. Len(norm.s2)
  /\ SwapCase(norm.s2[i]) # norm.s2[i]
  /\ Edited([norm.s2 EXCEPT ![i] = SwapCase(@)], TRUE)

\* an internal white-space run of the second string grows by one character
LengthenRun(i) ==
  /\ Editable
  /\ i \in 1 .. Len(norm.s2)
  /\ Internal(norm.s2, i)
  /\ Edited(InsertAt(norm.s2, i, norm.s2[i]), TRUE)

\* an internal white-space run of two or more shrinks by one character
ShortenRun(i) ==
  /\ Editable
  /\ i \in 1 .. Len(norm.s2) - 1
  /\ Internal(norm.s2, i)
  /\ norm.s2[i + 1] = norm.s2[i]
  /\ Edited(DeleteAt(norm.s2, i), TRUE)

\* any other character is typed at the end of the second string
TypeChar(ch) ==
  /\ Editable
  /\ Edited(Append(norm.s2, ch), FALSE)

\* checkAnswer(s1, s2)
CheckAnswer ==
  /\ norm.verdict = "none"
  /\ norm.once = Null
  /\ norm' = [norm EXCEPT !.verdict =
                IF checkAnswer(norm.s1, norm.s2) THEN "equal" ELSE "differ"]
  /\ UNCHANGED <<variant, ttsVars, svcVars, quiz, mode, words, reviews, store,
                 alerts, hist>>

\* normalizeString(normalizeString(s2))
NormalizeTwice ==
  /\ norm.verdict = "none"
  /\ norm.once = Null
  /\ norm' = [norm EXCEPT !.once = normalizeString(norm.s2),
                          !.twice = normalizeString(normalizeString(norm.s2))]
  /\ UNCHANGED <<variant, ttsVars, svcVars, quiz, mode, words, reviews, store,
                 alerts, hist>>

NextNorm ==
  \/ \E i \in 0 .. Len(norm.s2), ch \in TypedPunctuation :
       InsertPunctuation(i, ch)
  \/ \E i \in 1 .. Len(norm.s2) : DeletePunctuation(i)
  \/ \E i \in 1 .. Len(norm.s2) : ChangeCase(i)
  \/ \E i \in 1 .. Len(norm.s2) : LengthenRun(i)
  \/ \E i \in 1 .. Len(norm.s2) : ShortenRun(i)
  \/ \E ch \in TypedChars : TypeChar(ch)
  \/ CheckAnswer
  \/ NormalizeTwice

SpecNorm ==
  InitNorm /\ [][NextNorm]_vars

\* ---------------------------------------------------------------------------
\* C13 (as stated): whenever the second string differs from the first only in
\* punctuation characters, in the length of internal white-space runs or in
\* letter case, checkAnswer reports the two equal.
C13_SimilarStringsMatch ==
  (norm.only /\ norm.verdict # "none") => norm.verdict = "equal"

\* every white-space character of the string is a space
OnlySpaces(str) ==
  \A i \in 1 .. Len(str) : str[i] \in WhiteSpace => str[i] = 32

\* C13 (amended): the same, for strings whose white-space characters are all
\* spaces; a run of one tab or newline is kept as it is, a longer run becomes
\* a space.
C13_SimilarSpacedStringsMatch ==
  (norm.only /\ norm.verdict # "none" /\ OnlySpaces(norm.s1))
    => norm.verdict = "equal"

C13_Witness ==
  /\ norm.only
  /\ norm.verdict = "equal"
  /\ norm.s1 = <<65, 46, 32, 98>>
  /\ norm.edits = MaxEdits
  /\ Len(norm.s2) # Len(norm.s1)
  /\ \E i \in 1 .. Len(norm.s2) : norm.s2[i] \in 97 .. 122 /\ i <= 2

\* ---------------------------------------------------------------------------
\* C14: normalizeString is idempotent: normalizing the result of normalizing
\* a string gives that result again.
C14_Idempotent ==
  norm.once # Null => norm.twice = norm.once

C14_Witness ==
  /\ norm.once # Null
  /\ norm.twice = norm.once
  /\ norm.once # norm.s2
  /\ \E i \in 1 .. Len(norm.s2) - 1 :
       norm.s2[i] \in Punctuation /\ norm.s2[i + 1] \in WhiteSpace

\* ===========================================================================
\* The dictation quiz: TestMode
\*   "service"  src/components/TestMode.tsx  handleSubmit (51-71)
\*   "part003"  src/unnamed/part_003         handleSubmit (756-775)
\*   "part002"  src/unnamed/part_002         submit       (376-383)
\*   "prefetch" src/unnamed/part_002         submit       (1036-1044)
\*   "native"   src/index.tsx                submit       (422-430)
\* ===========================================================================
\* { id, term, definition? }
WordItem(id, term, definition) ==
  [id |-> id, term |-> term, definition |-> definition]

\* the lists a quiz runs on: "a b"; "A." and shin-sheva-lamed; "a" twice;
\* an imported item without a term
QuizLists ==
  {<<WordItem(1, <<97, 32, 98>>, Null)>>,
   <<WordItem(1, <<65, 46>>, <<120>>), WordItem(2, <<1513, 1456, 1500>>, Null)>>,
   <<WordItem(1, <<97>>, Null), WordItem(2, <<97>>, Null)>>,
   <<WordItem(1, Null, Null), WordItem(2, <<97, 9, 98>>, Null)>>}

\* what the user types: "", " ", "a", "a  b", "A-B", shin-lamed, "a<TAB>b"
Answers ==
  {<<>>, <<32>>, <<97>>, <<97, 32, 32, 98>>, <<65, 45, 66>>, <<1513, 1500>>,
   <<97, 9, 98>>}

InitQuiz ==
  /\ TtsIdle
  /\ SvcIdle
  /\ variant \in Variants
  /\ norm = NoNorm
  /\ quiz = NoQuiz
  /\ mode = "TEST"
  /\ \E list \in QuizLists : words = JsonArray(list)
  /\ reviews = <<>>
  /\ store = [words |-> [kind |-> "absent", items |-> <<>>],
              reviews |-> <<>>]
  /\ alerts = 0
  /\ hist = NoHist

\* onChange={(e) => setUserInput(e.target.value)}
SetUserInput(value) ==
  /\ mode = "TEST"
  /\ quiz.val # value
  /\ quiz' = [quiz EXCEPT !.val = value]
  /\ UNCHANGED <<variant, ttsVars, svcVars, norm, mode, words, reviews, store, alerts,
                 hist>>

\* the result recorded with the answer compared as typed
NewResultExact(w, value) ==
  [wordId |-> w.id, term |-> w.term, userAnswer |-> value,
   isCorrect |-> (w.term = value)]

\* const newResult: TestResult = { wordId, term, userAnswer, isCorrect }
NewResult(w, value) ==
  [wordId |-> w.id, term |-> w.term, userAnswer |-> value,
   isCorrect |-> checkAnswer(w.term, value)]

\* if (!val.trim()) return;   only in the two builds that have it
SubmitAccepted(value) ==
  variant \in {"prefetch", "native"} => Trim(value) # <<>>

\* a submission that moves to the next question without recording a result
HandleSubmitUnrecorded ==
  /\ mode = "TEST"
  /\ quiz.idx < Len(words.items) - 1
  /\ quiz' = [quiz EXCEPT !.idx = @ + 1, !.val = <<>>]
  /\ UNCHANGED <<variant, ttsVars, svcVars, norm, mode, words, reviews, store, alerts,
                 hist>>

\* handleSubmit / submit, with the input reset that follows a new question
\* and the App's onComplete after the last one
HandleSubmit ==
  /\ mode = "TEST"
  /\ SubmitAccepted(quiz.val)
  /\ LET w == words.items[quiz.idx + 1]
         newResults == Append(quiz.res, NewResult(w, quiz.val))
     IN  IF quiz.idx < Len(words.items) - 1
           THEN /\ quiz' = [quiz EXCEPT !.res = newResults,
                                        !.at = Append(@, quiz.idx),
                                        !.idx = @ + 1,
                                        !.val = <<>>]
                /\ UNCHANGED mode
           ELSE /\ quiz' = [quiz EXCEPT !.res = newResults,
                                        !.at = Append(@, quiz.idx),
                                        !.testResults = newResults]
                /\ mode' = "RESULT"
  /\ UNCHANGED <<variant, ttsVars, svcVars, norm, words, reviews, store, alerts, hist>>

\* onCancel: back to the preview, TestMode is unmounted
CancelTest ==
  /\ mode = "TEST"
  /\ mode' = "PREVIEW"
  /\ quiz' = [NoQuiz EXCEPT !.testResults = quiz.testResults]
  /\ UNCHANGED <<variant, ttsVars, svcVars, norm, words, reviews, store, alerts, hist>>

NextQuiz ==
  \/ \E value \in Answers : SetUserInput(value)
  \/ HandleSubmit
  \/ CancelTest

SpecQuiz ==
  InitQuiz /\ [][NextQuiz]_vars

\* ---------------------------------------------------------------------------
\* C12: every recorded TestResult carries the id and the term of the word at
\* the index it was submitted at, and its isCorrect is the equality of the
\* normalized term and the normalized answer.
C12_ResultsFollowNormalizer ==
  \A k \in 1 .. Len(quiz.res) :
    LET r == quiz.res[k]
        w == words.items[quiz.at[k] + 1]
    IN  /\ r.term = w.term
        /\ r.wordId = w.id
        /\ r.isCorrect = (normalizeString(r.term) = normalizeString(r.userAnswer))

C12_Witness ==
  /\ Len(quiz.res) = 2
  /\ quiz.res[1].isCorrect
  /\ quiz.res[1].userAnswer # quiz.res[1].term
  /\ ~quiz.res[2].isCorrect
  /\ quiz.res[2].wordId = 2

\* ---------------------------------------------------------------------------
\* C21: during a quiz run the number of recorded results equals the current
\* question index, the i-th result refers to the i-th word of the list, and
\* the results handed to the completion callback hold exactly one entry for
\* each word, in list order.
C21_OneResultPerQuestion ==
  /\ mode = "TEST" => Len(quiz.res) = quiz.idx
  /\ \A k \in 1 .. Len(quiz.res) :
       /\ k <= Len(words.items)
       /\ quiz.res[k].wordId = words.items[k].id
       /\ quiz.res[k].term = words.items[k].term
  /\ mode = "RESULT" =>
       /\ quiz.testResults = quiz.res
       /\ Len(quiz.testResults) = Len(words.items)

C21_Witness ==
  /\ mode = "RESULT"
  /\ Len(quiz.testResults) = 2
  /\ quiz.testResults[1].wordId = 1
  /\ quiz.testResults[2].wordId = 2

\* ===========================================================================
\* The App: screens, word list, review set, storage, list building, import
\*   "service"  src/App.tsx + src/components/InputSection.tsx
\*   "part005"  src/unnamed/part_005   the App with storage and ?page=
\*   "part006"  src/unnamed/part_006   the same with the review set
\*   "part003"  src/unnamed/part_003   the same inside an ErrorBoundary
\*   "part002"  src/unnamed/part_002   App (462-580), hash routing
\*   "prefetch" src/unnamed/part_002   App (1144-1284)
\*   "native"   src/index.tsx          App (545-686)
\* ===========================================================================
\* a list is built in the InputSection while fewer ids than this were handed out
MaxIds ==
  1

\* cards marked for review in one run
MaxMarks ==
  2

AppVariants ==
  {"service", "part005", "part006", "part003", "part002", "prefetch", "native"}

\* the builds whose InputSection is src/components/InputSection.tsx or its copy
ComponentBuilds ==
  {"service", "part005", "part006", "part003"}

\* the builds whose App keeps a review set
ReviewBuilds ==
  {"part006", "part003", "part002", "prefetch", "native"}

Pages ==
  {"MENU", "CREATE_LIST", "PREVIEW", "PRACTICE", "TEST", "RESULT"}

\* an array element that is null
NullItem ==
  [id |-> 0, term |-> Null, definition |-> Null, null |-> TRUE]

IsNullItem(w) ==
  "null" \in DOMAIN w

NoList ==
  [kind |-> "absent", items |-> <<>>]

\* value.length: -1 stands for undefined
Length(value) ==
  IF value.kind = "array" THEN Len(value.items) ELSE -1

\* String.prototype.split(sep) for a one-character separator
RECURSIVE Split(_, _)
Split(str, sep) ==
  IF \A i \in 1 .. Len(str) : str[i] # sep
    THEN <<str>>
    ELSE LET i == CHOOSE k \in 1 .. Len(str) :
                     str[k] = sep /\ \A j \in 1 .. k - 1 : str[j] # sep
         IN  <<SubSeq(str, 1, i - 1)>> \o Split(SubSeq(str, i + 1, Len(str)), sep)

\* Array.prototype.join(sep)
RECURSIVE Join(_, _)
Join(parts, sep) ==
  IF Len(parts) = 0 THEN <<>>
  ELSE IF Len(parts) = 1 THEN parts[1]
  ELSE parts[1] \o <<sep>> \o Join(Tail(parts), sep)

\* .map(...) over the kept entries, generateId() once for each, in order
WithIds(entries, ids) ==
  [i \in 1 .. Len(entries) |->
     WordItem(ids + i, entries[i].term, entries[i].definition)]

Entry(term, definition) ==
  [term |-> term, definition |-> definition]

\* manual tab of InputSection.tsx: rows with a non-blank term, trimmed
ManualEntries(rows) ==
  LET kept == SelectSeq(rows, LAMBDA r : Trim(r.term) # <<>>)
  IN  [i \in 1 .. Len(kept) |-> Entry(Trim(kept[i].term), Null)]

\* paste tab: split('\n'), trim, drop the empty lines
PasteEntries(text) ==
  LET lines == SelectSeq(Split(text, 10), LAMBDA l : Trim(l) # <<>>)
  IN  [i \in 1 .. Len(lines) |-> Entry(Trim(lines[i]), Null)]

\* the definition cut at the second '-'
PairOfLineSecondPart(line) ==
  LET parts == Split(line, 45)
  IN  Entry(Trim(parts[1]), Trim(parts[2]))

\* one 'pairs' line with a '-': parts[0].trim(), parts.slice(1).join('-').trim()
PairOfLine(line) ==
  LET parts == Split(line, 45)
  IN  Entry(Trim(parts[1]), Trim(Join(Tail(parts), 45)))

\* pairs tab: the lines with a '-', in order
PairsEntries(text) ==
  LET lines == SelectSeq(Split(text, 10), LAMBDA l : Len(Split(l, 45)) >= 2)
  IN  [i \in 1 .. Len(lines) |-> PairOfLine(lines[i])]

\* manual rows of part_002 and index.tsx: term and definition trimmed
RowEntries(rows, emptyDefinition) ==
  LET kept == SelectSeq(rows, LAMBDA r : Trim(r.term) # <<>>)
  IN  [i \in 1 .. Len(kept) |->
         Entry(Trim(kept[i].term),
               IF Trim(kept[i].definition) = <<>>
                 THEN emptyDefinition
                 ELSE Trim(kept[i].definition))]

\* the list processAndSave / process computes from the form
FinalList(draft) ==
  IF variant \in ComponentBuilds \cup {"part002"}
    THEN CASE draft.tab = "manual" ->
                IF variant = "part002" THEN RowEntries(draft.rows, Null)
                                       ELSE ManualEntries(draft.rows)
           [] draft.tab = "paste" -> PasteEntries(draft.text)
           [] draft.tab = "pairs" -> PairsEntries(draft.text)
    ELSE RowEntries(draft.rows, <<>>)

\* the form of InputSection when "save" is pressed: the tab, the manual rows
\* and the textarea of the tab
Draft(tab, rows, text) ==
  [tab |-> tab, rows |-> rows, text |-> text]

\* rows "a", " ", " b " with definition "x "; one blank row; pasted
\* "c\nd\n\n e"; pasted "\n "; pairs "a - x-y\nb\n-z"; pairs "b";
\* a row "a" with "c" pasted
Drafts ==
  {Draft("manual", <<Entry(<<97>>, <<>>), Entry(<<32>>, <<>>),
                     Entry(<<32, 98, 32>>, <<120, 32>>)>>, <<>>),
   Draft("manual", <<Entry(<<32>>, <<>>)>>, <<>>),
   Draft("paste", <<Entry(<<>>, <<>>)>>, <<99, 10, 100, 10, 10, 32, 101>>),
   Draft("paste", <<Entry(<<>>, <<>>)>>, <<10, 32>>),
   Draft("pairs", <<Entry(<<>>, <<>>)>>,
         <<97, 32, 45, 32, 120, 45, 121, 10, 98, 10, 45, 122>>),
   Draft("pairs", <<Entry(<<>>, <<>>)>>, <<98>>),
   Draft("paste", <<Entry(<<97>>, <<>>)>>, <<99>>)}

\* the files chosen for import: not JSON; empty; {"not": "an array"};
\* two items; []; an item with an empty term; [null]
Files ==
  {[kind |-> "garbage", items |-> <<>>],
   [kind |-> "empty", items |-> <<>>],
   [kind |-> "object", items |-> <<>>],
   JsonArray(<<WordItem(1, <<97>>, <<120>>), WordItem(2, <<98>>, Null)>>),
   JsonArray(<<>>),
   JsonArray(<<WordItem(1, <<>>, Null)>>),
   JsonArray(<<NullItem>>)}

\* what the address names when the page is loaded
Navs ==
  {[via |-> v, page |-> p] : v \in {"query", "hash", "redirect"},
                             p \in Pages \cup {"none"}}

HasNullItem(value) ==
  \E i \in 1 .. Len(value.items) : IsNullItem(value.items[i])

\* rendering screen m with list w throws
Throws(m, w) ==
  \/ /\ m = "PREVIEW"
     /\ w.kind # "array" \/ HasNullItem(w)
  \/ /\ m = "CREATE_LIST"
     /\ HasNullItem(w)
  \/ /\ m = "PRACTICE"
     /\ variant # "part003"
     /\ Length(w) <= 0 \/ HasNullItem(w)
  \/ /\ m = "TEST"
     /\ variant \in {"service", "part005", "part006"}
     /\ Length(w) <= 0 \/ HasNullItem(w)

\* the component tree is gone (or replaced by the ErrorBoundary screen)
Crashed ==
  Throws(mode, words)

\* localStorage 'dixi_words' after the list became w
Persisted(w, old) ==
  CASE variant = "service" -> old
    [] variant \in {"part005", "part006", "part003"} ->
         IF Length(w) > 0 THEN w ELSE old
    [] OTHER -> w

\* init effect of part_005, part_006, part_003: ?page= or the redirect
QueryRoute(page, loadedWords) ==
  IF page \in Pages
    THEN IF page \in {"PRACTICE", "TEST", "PREVIEW"} /\ Length(loadedWords) = 0
           THEN "MENU"
           ELSE page
    ELSE "MENU"

\* handleHash of part_002
HashRoute(m, w) ==
  IF m \in Pages
    THEN IF m \in {"PRACTICE", "TEST"} /\ Length(w) = 0 THEN "MENU" ELSE m
    ELSE "MENU"

\* the sessionStorage redirect of part_002
RedirectRoute(page, w) ==
  IF page \in Pages /\ Length(w) > 0 THEN page ELSE "MENU"

\* the words read from localStorage when the App mounts
LoadedWords ==
  CASE variant = "service" -> JsonArray(<<>>)
    [] OTHER -> IF store.words.kind = "absent" THEN JsonArray(<<>>)
                                                 ELSE store.words

\* the review set read from localStorage when the App mounts
LoadedReviews ==
  IF variant \in ReviewBuilds THEN store.reviews ELSE <<>>

\* the screen after mounting under the address nav
InitialMode(nav, loadedWords) ==
  CASE variant \in {"part005", "part006", "part003"} ->
         QueryRoute(nav.page, loadedWords)
    [] variant = "part002" ->
         IF nav.via = "redirect" THEN RedirectRoute(nav.page, loadedWords)
                                 ELSE HashRoute(nav.page, loadedWords)
    [] OTHER -> "MENU"

InitApp ==
  /\ TtsIdle
  /\ SvcIdle
  /\ variant \in AppVariants
  /\ norm = NoNorm
  /\ quiz = NoQuiz
  /\ mode = "MENU"
  /\ words = JsonArray(<<>>)
  /\ reviews = <<>>
  /\ store = [words |-> NoList, reviews |-> <<>>]
  /\ alerts = 0
  /\ hist = [op |-> "none", marks |-> 0, ids |-> 0, input |-> <<>>]

\* the operation just performed
Did(op, newIds, input) ==
  hist' = [op |-> op,
           marks |-> hist.marks + (IF op = "mark" THEN 1 ELSE 0),
           ids |-> hist.ids + newIds,
           input |-> input]

AppFrame ==
  UNCHANGED <<variant, ttsVars, svcVars, norm, quiz>>

\* processAndSave / process, then the App's handleSaveList / saveList
ProcessAndSave(draft) ==
  /\ mode = "CREATE_LIST"
  /\ ~Crashed
  /\ hist.ids < MaxIds
  /\ draft.tab = "pairs" => variant \in ComponentBuilds \cup {"part002"}
  /\ LET entries == FinalList(draft)
         list == JsonArray(WithIds(entries, hist.ids))
     IN  /\ Did("process", Len(entries), draft)
         /\ IF Len(entries) = 0
              THEN /\ alerts' = 1
                   /\ UNCHANGED <<mode, words, store>>
              ELSE /\ words' = list
                   /\ mode' = "PREVIEW"
                   /\ store' = [store EXCEPT !.words = Persisted(list, @)]
                   /\ alerts' = 0
  /\ UNCHANGED reviews
  /\ AppFrame

\* uploadList of App.tsx and its copies: only an array replaces the list
uploadList(file) ==
  CASE file.kind = "array" ->
         /\ words' = file
         /\ mode' = "PREVIEW"
         /\ store' = [store EXCEPT !.words = Persisted(file, @)]
         /\ alerts' = 0
    [] file.kind = "garbage" ->
         /\ alerts' = 1
         /\ UNCHANGED <<mode, words, store>>
    [] OTHER ->
         /\ alerts' = 0
         /\ UNCHANGED <<mode, words, store>>

\* loadFile of part_002 and the file input of index.tsx: saveList(JSON.parse(..))
loadFile(file) ==
  IF file.kind \in {"garbage", "empty"}
    THEN /\ alerts' = 1
         /\ UNCHANGED <<mode, words, store>>
    ELSE /\ words' = file
         /\ mode' = "PREVIEW"
         /\ store' = [store EXCEPT !.words = file]
         /\ alerts' = 0

\* a file is chosen on the menu screen and read
Import(file) ==
  /\ mode = "MENU"
  /\ ~Crashed
  /\ Did("import", 0, file)
  /\ IF variant \in ComponentBuilds THEN uploadList(file) ELSE loadFile(file)
  /\ UNCHANGED reviews
  /\ AppFrame

\* the word appended whether or not its term is there
AddReviewAlways(rs, w) ==
  Append(rs, w)

\* handleAddToReview / addReview
AddReview(rs, w) ==
  IF \E i \in 1 .. Len(rs) : rs[i].term = w.term THEN rs ELSE Append(rs, w)

\* the card shown in PracticeMode is marked for review
MarkForReview(i) ==
  /\ mode = "PRACTICE"
  /\ ~Crashed
  /\ variant \in ReviewBuilds
  /\ hist.marks < MaxMarks
  /\ i \in 1 .. Length(words)
  /\ ~IsNullItem(words.items[i])
  /\ reviews' = AddReview(reviews, words.items[i])
  /\ store' = [store EXCEPT !.reviews = reviews']
  /\ Did("mark", 0, <<>>)
  /\ alerts' = 0
  /\ UNCHANGED <<mode, words>>
  /\ AppFrame

\* handleLoadReview / onLoadReview / onReview: the review set becomes the list
LoadReview ==
  /\ mode = "MENU"
  /\ ~Crashed
  /\ variant \in ReviewBuilds
  /\ Len(reviews) > 0
  /\ words' = JsonArray(reviews)
  /\ mode' = "PREVIEW"
  /\ store' = [store EXCEPT !.words =
                 IF variant \in {"prefetch", "native"}
                   THEN @
                   ELSE Persisted(JsonArray(reviews), @)]
  /\ Did("loadReview", 0, <<>>)
  /\ alerts' = 0
  /\ UNCHANGED reviews
  /\ AppFrame

\* the page is loaded (again): the App mounts from localStorage and the address
Load(nav) ==
  /\ CASE variant = "part002" -> nav.via \in {"hash", "redirect"}
       [] variant \in {"part005", "part006", "part003"} -> nav.via = "query"
       [] OTHER -> nav.via = "query" /\ nav.page = "none"
  /\ words' = LoadedWords
  /\ reviews' = LoadedReviews
  /\ mode' = InitialMode(nav, LoadedWords)
  /\ Did("load", 0, nav)
  /\ alerts' = 0
  /\ UNCHANGED store
  /\ AppFrame

\* hashchange handler of part_002 (the buttons of that build set the hash)
HashChange(m) ==
  /\ variant = "part002"
  /\ ~Crashed
  /\ mode' = HashRoute(m, words)
  /\ Did("hash", 0, [via |-> "hash", page |-> m])
  /\ alerts' = 0
  /\ UNCHANGED <<words, reviews, store>>
  /\ AppFrame

\* the screens the buttons of screen m lead to
ButtonTargets(m, w) ==
  CASE m = "MENU" ->
         {"CREATE_LIST"} \cup (IF Length(w) > 0 THEN {"PREVIEW"} ELSE {})
    [] m = "CREATE_LIST" -> {"MENU"}
    [] m = "PREVIEW" ->
         {"MENU", "CREATE_LIST"} \cup
         (IF variant \in {"prefetch", "native"} /\ ~(Length(w) > 0)
            THEN {}
            ELSE {"PRACTICE", "TEST"})
    [] m \in {"PRACTICE", "TEST"} -> {"PREVIEW", "MENU"}
    [] m = "RESULT" ->
         {"MENU"} \cup (IF variant \in ComponentBuilds THEN {"TEST"} ELSE {})

\* setMode / handleModeChange from a button
Go(target) ==
  /\ variant # "part002"
  /\ ~Crashed
  /\ target \in ButtonTargets(mode, words)
  /\ mode' = target
  /\ Did("go", 0, <<>>)
  /\ alerts' = 0
  /\ UNCHANGED <<words, reviews, store>>
  /\ AppFrame

\* ErrorBoundary.handleReset: localStorage.clear(); window.location.reload()
HandleReset ==
  /\ variant = "part003"
  /\ Crashed
  /\ store' = [words |-> NoList, reviews |-> <<>>]
  /\ words' = JsonArray(<<>>)
  /\ reviews' = <<>>
  /\ mode' = QueryRoute(mode, JsonArray(<<>>))
  /\ Did("reset", 0, <<>>)
  /\ alerts' = 0
  /\ AppFrame

NextApp ==
  \/ \E draft \in Drafts : ProcessAndSave(draft)
  \/ \E file \in Files : Import(file)
  \/ \E i \in 1 .. Length(words) : MarkForReview(i)
  \/ LoadReview
  \/ \E nav \in Navs : Load(nav)
  \/ \E m \in Pages \cup {"none"} : HashChange(m)
  \/ \E target \in Pages : Go(target)
  \/ HandleReset

SpecApp ==
  InitApp /\ [][NextApp]_vars

\* ---------------------------------------------------------------------------
\* C15: importing a file whose content is not a JSON array leaves the word
\* list, the screen and the persisted word list as they were and raises an
\* error dialog.
C15_NonArrayImportRejected ==
  [][\A file \in Files :
       (file.kind # "array" /\ Import(file)) =>
         /\ words' = words
         /\ mode' = mode
         /\ store'.words = store.words
         /\ alerts' = 1]_vars

\* ---------------------------------------------------------------------------
\* C16: after a navigation that names PRACTICE, TEST or PREVIEW in the page
\* query parameter or in the hash while the word list is empty, the screen is
\* MENU.
C16_EmptyListRoutesToMenu ==
  (/\ hist.op \in {"load", "hash"}
   /\ hist.input.via \in {"query", "hash"}
   /\ hist.input.page \in {"PRACTICE", "TEST", "PREVIEW"}
   /\ Length(words) = 0)
    => mode = "MENU"

\* ---------------------------------------------------------------------------
\* C17: every WordItem of the active word list has a non-empty term.
C17_TermsNonEmpty ==
  \A i \in 1 .. Len(words.items) :
    \/ IsNullItem(words.items[i])
    \/ /\ words.items[i].term # <<>>
       /\ words.items[i].term # Null

\* ---------------------------------------------------------------------------
\* C18: a list built in 'pairs' mode has one WordItem for each input line with
\* a '-', in input order: its term is the trimmed text before the first '-',
\* its definition the trimmed rest after it; the lines without '-' are dropped.
HasDash(line) ==
  \E k \in 1 .. Len(line) : line[k] = 45

FirstDash(line) ==
  CHOOSE k \in 1 .. Len(line) :
    line[k] = 45 /\ \A j \in 1 .. k - 1 : line[j] # 45

C18_PairsMapping ==
  (hist.op = "process" /\ hist.input.tab = "pairs") =>
    LET lines == SelectSeq(Split(hist.input.text, 10), HasDash)
    IN  IF lines = <<>>
          THEN alerts = 1
          ELSE /\ Length(words) = Len(lines)
               /\ \A i \in 1 .. Len(lines) :
                    LET k == FirstDash(lines[i])
                    IN  /\ words.items[i].term = Trim(SubSeq(lines[i], 1, k - 1))
                        /\ words.items[i].definition =
                             Trim(SubSeq(lines[i], k + 1, Len(lines[i])))

C18_Witness ==
  /\ hist.op = "process"
  /\ hist.input.tab = "pairs"
  /\ Len(Split(hist.input.text, 10)) = 3
  /\ Length(words) = 2
  /\ words.items[1].term = <<97>>
  /\ words.items[1].definition = <<120, 45, 121>>
  /\ words.items[2].definition = <<122>>

\* ---------------------------------------------------------------------------
\* C19: a list built from pasted text has exactly one WordItem for each
\* non-blank line, in line order, with the trimmed line as its term, an id not
\* handed out before and no definition.
NonBlank(line) ==
  Trim(line) # <<>>

C19_PasteMapping ==
  (hist.op = "process" /\ hist.input.tab = "paste") =>
    LET lines == SelectSeq(Split(hist.input.text, 10), NonBlank)
    IN  lines # <<>> =>
          /\ Length(words) = Len(lines)
          /\ \A i \in 1 .. Len(lines) :
               /\ words.items[i].term = Trim(lines[i])
               /\ words.items[i].definition = Null
               /\ words.items[i].id > hist.ids - Len(lines)
               /\ \A j \in 1 .. Len(lines) :
                    words.items[i].id = words.items[j].id => i = j

\* ---------------------------------------------------------------------------
\* C20: the review set never holds two entries with equal term and only grows
\* at its end: 'mark for review' is the only operation that changes it (it
\* appends the word when its term is absent and leaves the set alone
\* otherwise), and no operation removes an entry.
NoEqualTerms(rs) ==
  \A i, j \in 1 .. Len(rs) : rs[i].term = rs[j].term => i = j

TermIn(rs, term) ==
  \E k \in 1 .. Len(rs) : rs[k].term = term

MarkStep ==
  \E i \in 1 .. Length(words) : MarkForReview(i)

MarkAppendsAbsentTerm ==
  \A i \in 1 .. Length(words) :
    MarkForReview(i) =>
      reviews' = IF TermIn(reviews, words.items[i].term)
                   THEN reviews
                   ELSE Append(reviews, words.items[i])

C20_ReviewAppendOnly ==
  [][/\ NoEqualTerms(reviews) => NoEqualTerms(reviews')
     /\ MarkAppendsAbsentTerm
     /\ reviews' # reviews => MarkStep
     /\ Len(reviews') >= Len(reviews)
     /\ SubSeq(reviews', 1, Len(reviews)) = reviews]_vars

\* C20, amended: the same, except that the reset of the ErrorBoundary empties
\* the review set.
C20_ReviewAppendOnlyUntilReset ==
  [][/\ NoEqualTerms(reviews) => NoEqualTerms(reviews')
     /\ MarkAppendsAbsentTerm
     /\ reviews' # reviews => MarkStep \/ HandleReset
     /\ HandleReset => reviews' = <<>>
     /\ ~HandleReset =>
          /\ Len(reviews') >= Len(reviews)
          /\ SubSeq(reviews', 1, Len(reviews)) = reviews]_vars

C20_Witness ==
  /\ variant # "part003"
  /\ hist.op = "mark"
  /\ hist.marks = 2
  /\ Len(reviews) = 1
  /\ store.reviews = reviews

\* ---------------------------------------------------------------------------
\* C25: after every operation that changes the active word list (a built list
\* saved, a file imported, the review set loaded as the list), the word list
\* in local storage equals the list in memory. App.tsx keeps no storage and
\* is left out.
C25_PersistedEqualsMemory ==
  [][(/\ variant # "service"
      /\ hist'.op \in {"process", "import", "loadReview"}
      /\ words' # words)
       => store'.words = words']_vars

\* ---------------------------------------------------------------------------
\* C26: in App.tsx, whenever the screen is PRACTICE or TEST the word list is
\* non-empty.
C26_QuizScreensHaveWords ==
  (variant = "service" /\ mode \in {"PRACTICE", "TEST"}) => Length(words) > 0

\* ---------------------------------------------------------------------------
\* C27: whenever the RESULT screen is shown, the results it displays are
\* non-empty (those the last completed quiz run handed over).
C27_ResultScreenHasResults ==
  mode = "RESULT" => Len(quiz.testResults) > 0

\* ===========================================================================
\* decodeAudioData: raw 16-bit PCM bytes to an AudioBuffer
\*   "part002"  src/unnamed/part_002  decodeAudioData (50-56), one channel
\*   "prefetch" src/unnamed/part_002  decodeAudioData (646-663)
\*   "part003"  src/unnamed/part_003  decodeAudioData (121-138)
\* A sample value k / 32768.0 is kept as the pair <<k, 32768>>; every such
\* quotient with |k| <= 32768 is exact in a Float32Array.
\* ===========================================================================
\* bytes handed to one decodeAudioData call
MaxBytes ==
  4

DecoderVariants ==
  {"part002", "prefetch", "part003"}

\* the byte values the inputs are made of
PcmBytes ==
  {0, 1, 127, 128, 255}

\* the channel counts a caller can pass (part_002 50-56 has no such parameter)
ChannelCounts ==
  IF variant = "part002" THEN {1} ELSE {1, 2}

RECURSIVE ByteSeqs(_)
ByteSeqs(n) ==
  IF n = 0
    THEN {<<>>}
    ELSE ByteSeqs(n - 1) \cup
         {Append(s, b) : s \in {t \in ByteSeqs(n - 1) : Len(t) = n - 1},
                         b \in PcmBytes}

\* the element read as an unsigned 16-bit number
Int16Unsigned(data, j) ==
  data[2 * j + 1] + 256 * data[2 * j + 2]

\* element j (from 0) of an Int16Array over the bytes: little-endian, signed
Int16At(data, j) ==
  LET u == data[2 * j + 1] + 256 * data[2 * j + 2]
  IN  IF u >= 32768 THEN u - 65536 ELSE u

\* new Int16Array(data.buffer, data.byteOffset, data.byteLength / 2): the
\* length is truncated to an integer; new Int16Array(data.buffer) of part_003
\* throws a RangeError when the byte length is odd (-1)
Int16Length(data) ==
  IF variant = "part003" /\ Len(data) % 2 # 0 THEN -1 ELSE Len(data) \div 2

\* ctx.createBuffer(numChannels, frameCount, sampleRate): the frame count is
\* converted to an unsigned long (truncated); a buffer of no frame is refused
\* with a NotSupportedError (-1)
CreateBufferLength(frameCount) ==
  IF frameCount = 0 THEN -1 ELSE frameCount

\* channelData[i] = dataInt16[i * numChannels + channel] / 32768.0 for the
\* frames the buffer has (a write past its end is ignored)
ChannelData(data, frames, numChannels, channel) ==
  [i \in 1 .. frames |->
     <<Int16At(data, (i - 1) * numChannels + channel), 32768>>]

DecodeError ==
  [kind |-> "error", frames |-> 0, channels |-> <<>>]

\* decodeAudioData(data, ctx, sampleRate, numChannels)
decodeAudioData(data, numChannels) ==
  LET length == Int16Length(data)
  IN  IF length < 0
        THEN DecodeError
        ELSE LET frames == CreateBufferLength(length \div numChannels)
             IN  IF frames < 0
                   THEN DecodeError
                   ELSE [kind |-> "buffer",
                         frames |-> frames,
                         channels |->
                           [c \in 1 .. numChannels |->
                              ChannelData(data, frames, numChannels, c - 1)]]

InitDecode ==
  /\ TtsIdle
  /\ AppIdle
  /\ variant \in DecoderVariants
  /\ player = NoPlayer
  /\ prefetch = NoPrefetch
  /\ \E data \in ByteSeqs(MaxBytes), numChannels \in ChannelCounts :
       pcm = [op |-> "input", data |-> data, numChannels |-> numChannels,
              result |-> DecodeError]

\* the awaited call on the bytes of a response
DecodeAudioData ==
  /\ pcm.op = "input"
  /\ pcm' = [pcm EXCEPT !.op = "decoded",
                        !.result = decodeAudioData(pcm.data, pcm.numChannels)]
  /\ UNCHANGED <<variant, ttsVars, appVars, player, prefetch>>

NextDecode ==
  DecodeAudioData

SpecDecode ==
  InitDecode /\ [][NextDecode]_vars

\* ---------------------------------------------------------------------------
\* C22: decoding n bytes of signed 16-bit little-endian PCM with c channels
\* gives n/2/c frames, and the sample at frame i of channel k is input sample
\* i*c + k divided by 32768: zero bytes give zero samples, 0x7FFF gives
\* 32767/32768 and 0x8000 gives exactly -1.
Aligned ==
  Len(pcm.data) % (2 * pcm.numChannels) = 0

\* input sample j (from 0) as a signed 16-bit little-endian number
InputSample(j) ==
  LET lo == pcm.data[2 * j + 1]
      hi == pcm.data[2 * j + 2]
  IN  IF hi >= 128 THEN lo + 256 * hi - 65536 ELSE lo + 256 * hi

SamplesFollowInput ==
  /\ pcm.result.kind = "buffer"
  /\ pcm.result.frames = (Len(pcm.data) \div 2) \div pcm.numChannels
  /\ Len(pcm.result.channels) = pcm.numChannels
  /\ \A k \in 1 .. pcm.numChannels :
       /\ Len(pcm.result.channels[k]) = pcm.result.frames
       /\ \A i \in 1 .. pcm.result.frames :
            LET j == (i - 1) * pcm.numChannels + (k - 1)
                sample == pcm.result.channels[k][i]
            IN  /\ sample[2] = 32768
                /\ sample[1] = InputSample(j)
                /\ (pcm.data[2 * j + 1] = 0 /\ pcm.data[2 * j + 2] = 0)
                     => sample[1] = 0
                /\ (pcm.data[2 * j + 1] = 255 /\ pcm.data[2 * j + 2] = 127)
                     => sample[1] = 32767
                /\ (pcm.data[2 * j + 1] = 0 /\ pcm.data[2 * j + 2] = 128)
                     => sample[1] = 0 - sample[2]

C23_MisalignedInputFails ==
  (pcm.op = "decoded" /\ ~Aligned) => pcm.result.kind = "error"

\* ===========================================================================
\* The audio of the quiz screen: playAudio, the play button, the auto-play
\* timer of TestMode
\*   "service"  src/components/TestMode.tsx  (12-71)
\*   "part003"  src/unnamed/part_003         (711-775), with testStarted
\* The timer callback calls the playAudio of the render that ran the effect,
\* so it reads the isPlaying of that render (timer.isPlaying).
\* ===========================================================================
\* words in the list the quiz runs on
MaxQuestions ==
  3

\* playTextToSpeech calls of the component not yet settled
MaxInFlight ==
  3

PlayerVariants ==
  {"service", "part003"}

NoTimer ==
  [armed |-> FALSE, isPlaying |-> FALSE]

\* setTimeout(() => { playAudio(); }, 500) set by the render whose isPlaying
\* is captured
Timer(captured) ==
  [armed |-> TRUE, isPlaying |-> captured]

\* the effect on [currentIndex] (part_003: [currentIndex, testStarted]) after
\* a render with these values
AutoPlayEffect(testStarted, isPlaying) ==
  IF variant = "service" \/ testStarted THEN Timer(isPlaying) ELSE NoTimer

InitPlayer ==
  /\ TtsIdle
  /\ AppIdle
  /\ variant \in PlayerVariants
  /\ pcm = NoPcm
  /\ prefetch = NoPrefetch
  /\ \E n \in 1 .. MaxQuestions :
       player = [mounted |-> TRUE, n |-> n, idx |-> 0, isPlaying |-> FALSE,
                 testStarted |-> FALSE,
                 timer |-> AutoPlayEffect(FALSE, FALSE),
                 inflight |-> 0, auto |-> {}, clicked |-> {}]

PlayerFrame ==
  UNCHANGED <<variant, ttsVars, appVars, pcm, prefetch>>

\* playAudio up to the await, run with the isPlaying its closure holds:
\* if (isPlaying) return; setIsPlaying(true); playTextToSpeech(textToSpeak)
playAudio(p, isPlaying) ==
  IF isPlaying
    THEN p
    ELSE [p EXCEPT !.isPlaying = TRUE, !.inflight = @ + 1]

\* the play button (disabled={isPlaying}) of the current render is pressed;
\* in part_003 the first press sets testStarted and the effect runs again
ClickPlay ==
  /\ player.mounted
  /\ ~player.isPlaying
  /\ player.inflight < MaxInFlight
  /\ LET p == playAudio(player, player.isPlaying)
         starts == variant = "part003" /\ ~player.testStarted
     IN  player' = [p EXCEPT !.clicked = @ \cup {player.idx},
                             !.testStarted = @ \/ variant = "part003",
                             !.timer = IF starts
                                         THEN AutoPlayEffect(TRUE, p.isPlaying)
                                         ELSE @]
  /\ PlayerFrame

\* the 500 ms timer fires and calls the playAudio it captured
TimerFires ==
  /\ player.mounted
  /\ player.timer.armed
  /\ player.timer.isPlaying \/ player.inflight < MaxInFlight
  /\ LET p == playAudio(player, player.timer.isPlaying)
     IN  player' = [p EXCEPT !.timer = NoTimer,
                             !.auto = IF p.inflight > player.inflight
                                        THEN @ \cup {player.idx}
                                        ELSE @]
  /\ PlayerFrame

\* an awaited playTextToSpeech settles: setIsPlaying(false)
CallReturns ==
  /\ player.inflight > 0
  /\ player' = [player EXCEPT !.inflight = @ - 1,
                              !.isPlaying = IF player.mounted THEN FALSE ELSE @]
  /\ PlayerFrame

\* handleSubmit: the next question (the effect clears the timer and sets a new
\* one) or onComplete, which unmounts TestMode
SubmitAnswer ==
  /\ player.mounted
  /\ IF player.idx < player.n - 1
       THEN player' = [player EXCEPT
                         !.idx = @ + 1,
                         !.timer = AutoPlayEffect(player.testStarted,
                                                  player.isPlaying)]
       ELSE player' = [player EXCEPT !.mounted = FALSE, !.timer = NoTimer]
  /\ PlayerFrame

\* onCancel: TestMode is unmounted, the effect's cleanup clears the timer
CancelQuiz ==
  /\ player.mounted
  /\ player' = [player EXCEPT !.mounted = FALSE, !.timer = NoTimer]
  /\ PlayerFrame

NextPlayer ==
  \/ ClickPlay
  \/ TimerFires
  \/ CallReturns
  \/ SubmitAnswer
  \/ CancelQuiz

SpecPlayer ==
  InitPlayer /\ [][NextPlayer]_vars

\* a set timer fires, a started playback comes to its end
SpecPlayerFair ==
  SpecPlayer /\ WF_vars(TimerFires) /\ WF_vars(CallReturns)

\* ---------------------------------------------------------------------------
\* C28: at most one playTextToSpeech call started by TestMode is in flight at
\* any time.
C28_OneCallInFlight ==
  player.inflight <= 1

\* ---------------------------------------------------------------------------
\* C29: once the quiz is at a later question and the user neither leaves it
\* nor presses play, that question's audio is eventually played by the timer.
C29_NewQuestionAutoPlays ==
  \A q \in 1 .. MaxQuestions :
    [](player.mounted /\ player.idx = q
         => <>(\/ q \in player.auto
               \/ q \in player.clicked
               \/ ~player.mounted
               \/ player.idx # q))

\* ===========================================================================
\* The pre-caching build: preCacheAudio, fetchGeminiTTS and playTTS of
\* src/unnamed/part_002 (669-754), with the API key set and the audio device
\* running. prefetch.reqs holds the generateContent requests not yet answered.
\* ===========================================================================
\* generateContent requests issued in one run
MaxRequests ==
  3

\* the terms and definitions of the words: "a", " a", "b", " "
PrefetchTexts ==
  {<<97>>, <<32, 97>>, <<98>>, <<32>>}

InitPrefetch ==
  /\ TtsIdle
  /\ AppIdle
  /\ variant = "prefetch"
  /\ pcm = NoPcm
  /\ player = NoPlayer
  /\ prefetch = [cache |-> {}, prefetching |-> {}, reqs |-> {}, issued |-> 0,
                 last |-> "none"]

PrefetchFrame ==
  UNCHANGED <<variant, ttsVars, appVars, pcm, player>>

\* fetchGeminiTTS(clean) up to its await: one more request is open
Request(id, clean, origin, cache) ==
  [id |-> id, text |-> clean, origin |-> origin, cached |-> clean \in cache]

\* the texts of one preCacheAudio pass that are requested:
\* if (!clean || audioCache[clean] || prefetching.has(clean)) continue;
ToPrefetch(texts, p) ==
  {Trim(t) : t \in texts} \ ({<<>>} \cup p.cache \cup p.prefetching)

\* the n-th element of a set of texts in a fixed order
RECURSIVE Nth(_, _)
Nth(S, n) ==
  LET x == CHOOSE y \in S :
             \A z \in S : Len(y) < Len(z) \/ (Len(y) = Len(z) /\ y[1] <= z[1])
  IN  IF n = 1 THEN x ELSE Nth(S \ {x}, n - 1)

\* preCacheAudio(words): prefetching.add(clean); fetchGeminiTTS(clean).then(..)
PreCacheAudio(texts) ==
  /\ LET new == ToPrefetch(texts, prefetch)
         k == Cardinality(new)
     IN  /\ prefetch.issued + k <= MaxRequests
         /\ prefetch' =
              [prefetch EXCEPT
                 !.prefetching = @ \cup new,
                 !.reqs = @ \cup {Request(prefetch.issued + i, Nth(new, i),
                                         "prefetch", prefetch.cache) :
                                    i \in 1 .. k},
                 !.issued = @ + k,
                 !.last = "preCache"]
  /\ PrefetchFrame

\* playTTS(text) up to its first await past the device: empty check, cache
\* lookup, fetchGeminiTTS on a miss
PlayTTS(text) ==
  /\ LET clean == Trim(text)
     IN  IF clean = <<>> \/ clean \in prefetch.cache
           THEN prefetch' = [prefetch EXCEPT !.last = "play"]
           ELSE /\ prefetch.issued < MaxRequests
                /\ prefetch' =
                     [prefetch EXCEPT
                        !.reqs = @ \cup {Request(prefetch.issued + 1, clean,
                                                "play", prefetch.cache)},
                        !.issued = @ + 1,
                        !.last = "play"]
  /\ PrefetchFrame

\* the request is answered: a decoded buffer (audio) or null; the .then of
\* preCacheAudio or the continuation of playTTS stores the buffer, and
\* preCacheAudio takes the text out of the prefetching set
Answer(r, audio) ==
  /\ r \in prefetch.reqs
  /\ prefetch' =
       [prefetch EXCEPT
          !.reqs = @ \ {r},
          !.cache = IF audio THEN @ \cup {r.text} ELSE @,
          !.prefetching = IF r.origin = "prefetch" THEN @ \ {r.text} ELSE @,
          !.last = "answer"]
  /\ PrefetchFrame

NextPrefetch ==
  \/ \E texts \in SUBSET PrefetchTexts : PreCacheAudio(texts)
  \/ \E text \in PrefetchTexts : PlayTTS(text)
  \/ \E r \in prefetch.reqs, audio \in BOOLEAN : Answer(r, audio)

SpecPrefetch ==
  InitPrefetch /\ [][NextPrefetch]_vars

\* ---------------------------------------------------------------------------
\* C30: for every trimmed text at most one remote synthesis request is open at
\* any time, and no request is issued for a text that is in the cache.
C30_OneRequestPerText ==
  /\ \A r1, r2 \in prefetch.reqs : r1.text = r2.text => r1 = r2
  /\ \A r \in prefetch.reqs : ~r.cached

====
